---- MODULE Spec2Model ----
(***************************************************************************)
(* A model of src/core/dependencies/LayoutProvider.ts: the LayoutProvider  *)
(* (two injected callbacks, a scratch Dimension, the last layout manager   *)
(* it created) and the GridLayoutProvider that extends it.                 *)
(*                                                                         *)
(* Object references are modelled by names: the provider's scratch buffer  *)
(* is the object "tempDim"; a Dimension a caller allocated itself is the   *)
(* object "arg".  A manager is referred to by its position in `managers`   *)
(* (0 stands for undefined).  JavaScript errors are modelled by the        *)
(* outcome "threw" together with the error's name.                         *)
(***************************************************************************)
EXTENDS Integers, Sequences, FiniteSets, TLC

\* ------------------------------------------------------------------ bounds
\* How many layout managers one behaviour creates.
MaxManagers == 2
\* How many checkDimensionDiscrepancy calls may be in progress around one
\* that begins (0 would mean: no re-entrant call).
MaxDepth == 1
\* How many nested calls the engine's call stack holds before it overflows.
StackLimit == 3

\* ------------------------------------------------------------------ inputs
Types == {"header", "row"}
Indices == {1, 3}
Dim(h, w) == [height |-> h, width |-> w]
\* The Dimension literals a caller passes as the cached dimension.
OwnDims == {Dim(50, 320), Dim(100, 320)}
ArgDims == OwnDims \cup {Dim(100, 160)}
\* Which object the caller passes: one of its own, or the scratch buffer it
\* was handed by the compute callback or by the manager's setMaxBounds.
DimRefs == {"arg", "tempDim"}
RenderWindow == Dim(640, 320)
\* A call's dimension argument: the object passed and, for a caller's own
\* object, its contents (the scratch object's contents are the provider's).
DimArgs(temp, handed) ==
    {[ref |-> "arg", dim |-> d] : d \in ArgDims}
        \cup (IF handed THEN {[ref |-> "tempDim", dim |-> temp]} ELSE {})
IsHorizontalArgs == {"true", "false", "undefined"}
CachedLayoutsArgs == {"undefined", "cached"}
MaxSpans == {2, 4}
\* The callback sets a provider is constructed with.
Configs == {"example", "heightOnly", "throwing"}
Kinds == {"LayoutProvider", "GridLayoutProvider"}

\* JavaScript truthiness of the isHorizontal argument.
Truthy(isHorizontal) == isHorizontal = "true"

\* ------------------------------------------------------- injected callbacks
\* The classification callback: index % 3 == 0 -> "header", else "row"; the
\* "throwing" configuration throws for index 1.
ClassifyThrows(c, index) == c = "throwing" /\ index = 1
Classify(c, index) == IF index % 3 = 0 THEN "header" ELSE "row"

\* The compute callback (type, dim, index) => void writes into dim in place.
\*   example    : header -> 100x320, row -> 50x320
\*   heightOnly : header -> height 100 only (width left as it is), row -> 50x320
\*   throwing   : throws for index 1, otherwise as example
ComputeThrows(c, type, index) == c = "throwing" /\ index = 1
ComputeWritesWidth(c, type, index) == ~(c = "heightOnly" /\ type = "header")
ComputeWrites(c, type, dim, index) ==
    IF type = "header"
    THEN IF c = "heightOnly" THEN [dim EXCEPT !.height = 100] ELSE Dim(100, 320)
    ELSE Dim(50, 320)

\* The max-column-span callback reads a value its owner may change at any
\* time; in the "throwing" configuration it throws.
MaxSpanThrows(c) == c = "throwing"

\* ------------------------------------------------------------------- state
VARIABLES
    kind,               \* the class of the provider under test
    cfg,                \* the callbacks it was constructed with
    tempDim,            \* LayoutProvider._tempDim (contents of the scratch object)
    lastLayoutManager,  \* LayoutProvider._lastLayoutManager (0 = undefined)
    managers,           \* the managers constructed so far, in order: of each,
                        \* its class, its orientation and its span capacity
    maxSpanSource,      \* what the max-column-span callback returns now
    leaked,             \* whether a caller has been handed the scratch object
    ret,                \* the outcome of the most recent completed call
    stack,              \* the checkDimensionDiscrepancy calls in progress
    pair                \* two LayoutProviders with the same callbacks

vars == <<kind, cfg, tempDim, lastLayoutManager, managers, maxSpanSource,
          leaked, ret, stack, pair>>

NoRet == [op |-> "none"]
Snapshot(t, l, ms) == [tempDim |-> t, lastLayoutManager |-> l, managers |-> ms]

\* ------------------------------------------------------------ LayoutProvider
\* constructor: _tempDim = {height: 0, width: 0}, _lastLayoutManager undefined.
InitTempDim == Dim(0, 0)

\* LayoutProvider.setComputedLayout -> this._setLayoutForType(type, dim, index).
\* On a GridLayoutProvider the slot holds the closure
\*   (type, dim, index) => this.setComputedLayout(type, dim, index)
\* and setComputedLayout is not overridden, so each call makes one more nested
\* call of the same pair until the engine's stack overflows (RangeError).
\* `depth` is the number of frames already on the stack.
RECURSIVE SetComputedLayout(_, _, _, _, _, _)
SetComputedLayout(k, c, type, dim, index, depth) ==
    IF depth >= StackLimit
    THEN [outcome |-> "threw", error |-> "RangeError", dim |-> dim, calls |-> 0]
    ELSE IF k = "GridLayoutProvider"
    THEN SetComputedLayout(k, c, type, dim, index, depth + 1)
    ELSE IF ComputeThrows(c, type, index)
    THEN [outcome |-> "threw", error |-> "ComputeError", dim |-> dim, calls |-> 1]
    ELSE [outcome |-> "returned", error |-> "",
          dim |-> ComputeWrites(c, type, dim, index), calls |-> 1]

\* A variant of Recompute: the layout is computed only while the scratch
\* buffer still holds what the constructor put there.
RecomputeOnce(k, c, type, scratch, index) ==
    IF scratch # InitTempDim
    THEN [outcome |-> "returned", error |-> "", dim |-> scratch, calls |-> 0]
    ELSE SetComputedLayout(k, c, type, scratch, index, 1)

\* checkDimensionDiscrepancy, line 63: this.setComputedLayout(type, <scratch>,
\* index), called on every check; one frame (the check's) is on the stack.
Recompute(k, c, type, scratch, index) ==
    SetComputedLayout(k, c, type, scratch, index, 1)

\* A variant of Dimension2: the check compares against a copy of the scratch
\* buffer taken right after its own recomputation.
Dimension2Copied(scratchNow, scratchAfterRecompute) == scratchAfterRecompute

\* checkDimensionDiscrepancy, lines 64 and 68: dimension2 is a reference to
\* this._tempDim, so the comparison reads what the scratch buffer holds when
\* line 68 runs.
Dimension2(scratchNow, scratchAfterRecompute) == scratchNow

\* A variant of ScratchTarget: the recomputation is written into the caller's
\* object (setComputedLayout(type, dimension, index)).
ScratchTargetArgument(dimension) == dimension

\* checkDimensionDiscrepancy, line 63: the object handed to setComputedLayout
\* is this._tempDim, whatever `dimension` is.
ScratchTarget(dimension) == "tempDim"

\* A variant of PropagatesBounds: bounds are propagated only on a mismatch.
PropagatesBoundsOnMismatch(last, dimension1, dimension2) ==
    last # 0 /\ dimension1 # dimension2

\* checkDimensionDiscrepancy, line 65: setMaxBounds is called whenever a
\* manager is tracked, whatever the two dimensions are.
PropagatesBounds(last, dimension1, dimension2) == last # 0

\* WrapGridLayoutManager.setMaxBounds(dim): the manager takes dim as a hint
\* and leaves the object as it is; the result is the object's contents after
\* the call.
SetMaxBounds(dim) == dim

\* A variant of Discrepancy: the width is not compared.
DiscrepancyHeightOnly(dimension1, dimension2) ==
    dimension1.height # dimension2.height

\* checkDimensionDiscrepancy, line 68.
Discrepancy(dimension1, dimension2) ==
    dimension1.height # dimension2.height \/ dimension1.width # dimension2.width

\* A variant of OnComputeError: the error is caught and reported as a mismatch.
OnComputeErrorSuppressed(e) == [outcome |-> "returned", error |-> "", value |-> TRUE]

\* checkDimensionDiscrepancy has no try/catch: what its caller gets when
\* setComputedLayout ends with error e.
OnComputeError(e) == [outcome |-> "threw", error |-> e, value |-> FALSE]

\* The whole of checkDimensionDiscrepancy(dimension, type, index), lines 61-69,
\* run without interruption on a provider whose scratch holds `temp` and whose
\* _lastLayoutManager is `last`.  `dimension` names the object passed, `arg`
\* is the contents of the caller's own object.  heap maps each object to its
\* contents.
CheckDimensionDiscrepancy(k, c, temp, last, dimension, arg, type, index) ==
    LET heap0 == [r \in DimRefs |-> IF r = "arg" THEN arg ELSE temp]
        target == ScratchTarget(dimension)
        sc == Recompute(k, c, type, heap0[target], index)
    IN  IF sc.outcome = "threw"
        THEN OnComputeError(sc.error) @@
             [heap |-> heap0, before |-> heap0[dimension],
              computeCalls |-> sc.calls, boundsCalls |-> 0,
              boundsTarget |-> 0, boundsArg |-> heap0["tempDim"],
              recomputed |-> heap0["tempDim"], last |-> last]
        ELSE LET heap1 == [heap0 EXCEPT ![target] = sc.dim]
                 calls == PropagatesBounds(last, heap1[dimension], heap1["tempDim"])
                 heap2 == IF calls
                          THEN [heap1 EXCEPT !["tempDim"] = SetMaxBounds(heap1["tempDim"])]
                          ELSE heap1
             IN  [outcome |-> "returned", error |-> "",
                  value |-> Discrepancy(heap2[dimension],
                                        Dimension2(heap2["tempDim"], heap1["tempDim"])),
                  heap |-> heap2, before |-> heap0[dimension],
                  computeCalls |-> sc.calls,
                  boundsCalls |-> IF calls THEN 1 ELSE 0,
                  boundsTarget |-> IF calls THEN last ELSE 0,
                  boundsArg |-> heap1["tempDim"],
                  recomputed |-> heap1[target], last |-> last]

\* LayoutProvider.newLayoutManager, lines 45-48.
LayoutProviderNewLayoutManager(last, ms, renderWindowSize, isHorizontal, cachedLayouts) ==
    LET m == [cls |-> "WrapGridLayoutManager", isHorizontal |-> Truthy(isHorizontal),
              maxSpan |-> 0]
    IN  [outcome |-> "returned", error |-> "", manager |-> Len(ms) + 1,
         managers |-> Append(ms, m), last |-> Len(ms) + 1, maxSpanCalls |-> 0]

\* ------------------------------------------------------- GridLayoutProvider
\* A variant of GridNewLayoutManager: the max span is read before the
\* orientation is looked at.
GridNewLayoutManagerSpanFirst(c, span, last, ms, renderWindowSize, isHorizontal, cachedLayouts) ==
    IF MaxSpanThrows(c)
    THEN [outcome |-> "threw", error |-> "MaxSpanError", manager |-> 0,
          managers |-> ms, last |-> last, maxSpanCalls |-> 1]
    ELSE IF Truthy(isHorizontal)
    THEN [outcome |-> "threw", error |-> "NotSupportedException", manager |-> 0,
          managers |-> ms, last |-> last, maxSpanCalls |-> 1]
    ELSE [outcome |-> "returned", error |-> "", manager |-> Len(ms) + 1,
          managers |-> Append(ms, [cls |-> "GridLayoutManager", isHorizontal |-> FALSE,
                                   maxSpan |-> span]),
          last |-> last, maxSpanCalls |-> 1]

\* A variant of GridNewLayoutManager: the max span is read for the first
\* manager only and reused for the later ones.
GridNewLayoutManagerSpanCached(c, span, last, ms, renderWindowSize, isHorizontal, cachedLayouts) ==
    IF Truthy(isHorizontal)
    THEN [outcome |-> "threw", error |-> "NotSupportedException", manager |-> 0,
          managers |-> ms, last |-> last, maxSpanCalls |-> 0]
    ELSE IF MaxSpanThrows(c)
    THEN [outcome |-> "threw", error |-> "MaxSpanError", manager |-> 0,
          managers |-> ms, last |-> last, maxSpanCalls |-> 1]
    ELSE [outcome |-> "returned", error |-> "", manager |-> Len(ms) + 1,
          managers |-> Append(ms, [cls |-> "GridLayoutManager", isHorizontal |-> FALSE,
                                   maxSpan |-> IF ms = <<>> THEN span ELSE ms[1].maxSpan]),
          last |-> last, maxSpanCalls |-> 1]

\* GridLayoutProvider.newLayoutManager, lines 86-97.  `c` and `span` say what
\* this._setMaxColumnSpan() does when it is called.
GridNewLayoutManager(c, span, last, ms, renderWindowSize, isHorizontal, cachedLayouts) ==
    IF Truthy(isHorizontal)
    THEN [outcome |-> "threw", error |-> "NotSupportedException", manager |-> 0,
          managers |-> ms, last |-> last, maxSpanCalls |-> 0]
    ELSE IF MaxSpanThrows(c)
    THEN [outcome |-> "threw", error |-> "MaxSpanError", manager |-> 0,
          managers |-> ms, last |-> last, maxSpanCalls |-> 1]
    ELSE LET m == [cls |-> "GridLayoutManager", isHorizontal |-> FALSE,
                   maxSpan |-> span]
         IN  [outcome |-> "returned", error |-> "", manager |-> Len(ms) + 1,
              managers |-> Append(ms, m), last |-> last, maxSpanCalls |-> 1]

\* GridLayoutProvider.setMaxColumnSpan, lines 99-101.
GridSetMaxColumnSpan(c, span) ==
    IF MaxSpanThrows(c)
    THEN [outcome |-> "threw", error |-> "MaxSpanError", value |-> 0, maxSpanCalls |-> 1]
    ELSE [outcome |-> "returned", error |-> "", value |-> span, maxSpanCalls |-> 1]

\* LayoutProvider.getLayoutTypeForIndex, lines 51-53.
LayoutTypeForIndex(c, index) ==
    IF ClassifyThrows(c, index)
    THEN [outcome |-> "threw", error |-> "ClassifyError", value |-> "", classifyCalls |-> 1]
    ELSE [outcome |-> "returned", error |-> "", value |-> Classify(c, index),
          classifyCalls |-> 1]

\* ----------------------------------------------------------------- actions
Here == Snapshot(tempDim, lastLayoutManager, managers)
Idle == stack = <<>>

InitPair == [p \in {1, 2} |-> [tempDim |-> InitTempDim, lastLayoutManager |-> 0,
                               managers |-> <<>>]]

Init ==
    /\ kind \in Kinds
    /\ cfg \in Configs
    /\ tempDim = InitTempDim
    /\ lastLayoutManager = 0
    /\ managers = <<>>
    /\ maxSpanSource \in MaxSpans
    /\ leaked = FALSE
    /\ ret = NoRet
    /\ stack = <<>>
    /\ pair = InitPair

\* provider.getLayoutTypeForIndex(index)
GetLayoutTypeForIndex(index) ==
    /\ Idle
    /\ ret' = [op |-> "getLayoutTypeForIndex", index |-> index]
              @@ LayoutTypeForIndex(cfg, index)
    /\ UNCHANGED <<kind, cfg, tempDim, lastLayoutManager, managers, maxSpanSource,
                   leaked, stack, pair>>

\* provider.newLayoutManager(renderWindowSize, isHorizontal, cachedLayouts),
\* dispatched on the provider's class.
NewLayoutManager(isHorizontal, cachedLayouts) ==
    /\ Idle
    /\ Len(managers) < MaxManagers
    /\ LET r == IF kind = "GridLayoutProvider"
                THEN GridNewLayoutManager(cfg, maxSpanSource, lastLayoutManager, managers,
                                          RenderWindow, isHorizontal, cachedLayouts)
                ELSE LayoutProviderNewLayoutManager(lastLayoutManager, managers,
                                          RenderWindow, isHorizontal, cachedLayouts)
       IN  /\ managers' = r.managers
           /\ lastLayoutManager' = r.last
           /\ ret' = [op |-> "newLayoutManager", isHorizontal |-> isHorizontal,
                      cachedLayouts |-> cachedLayouts, outcome |-> r.outcome,
                      error |-> r.error, manager |-> r.manager,
                      maxSpanCalls |-> r.maxSpanCalls, pre |-> Here,
                      post |-> Snapshot(tempDim, r.last, r.managers)]
    /\ UNCHANGED <<kind, cfg, tempDim, maxSpanSource, leaked, stack, pair>>

\* provider.checkDimensionDiscrepancy(dimension, type, index), not re-entered.
\* The scratch object can be passed only by a caller that was handed it.
CheckDimensionDiscrepancyCall(dimension, arg, type, index) ==
    /\ Idle
    /\ LET r == CheckDimensionDiscrepancy(kind, cfg, tempDim, lastLayoutManager,
                                          dimension, arg, type, index)
       IN  /\ tempDim' = r.heap["tempDim"]
           /\ leaked' = (leaked \/ r.computeCalls > 0 \/ r.boundsCalls > 0)
           /\ ret' = [op |-> "checkDimensionDiscrepancy", dimension |-> dimension,
                      type |-> type, index |-> index, before |-> r.before,
                      after |-> r.heap[dimension], outcome |-> r.outcome,
                      error |-> r.error, value |-> r.value,
                      computeCalls |-> r.computeCalls, boundsCalls |-> r.boundsCalls,
                      boundsTarget |-> r.boundsTarget, boundsArg |-> r.boundsArg,
                      recomputed |-> r.recomputed, overlapped |-> FALSE,
                      lastBefore |-> lastLayoutManager,
                      lastAfter |-> r.last]
           /\ lastLayoutManager' = r.last
    /\ UNCHANGED <<kind, cfg, managers, maxSpanSource, stack, pair>>

\* provider.setComputedLayout(type, dimension, index), called directly.
SetComputedLayoutCall(dimension, arg, type, index) ==
    /\ Idle
    /\ LET heap0 == [r \in DimRefs |-> IF r = "arg" THEN arg ELSE tempDim]
           sc == SetComputedLayout(kind, cfg, type, heap0[dimension], index, 1)
           heap1 == [heap0 EXCEPT ![dimension] = sc.dim]
       IN  /\ tempDim' = heap1["tempDim"]
           /\ ret' = [op |-> "setComputedLayout", dimension |-> dimension,
                      type |-> type, index |-> index, before |-> heap0[dimension],
                      after |-> heap1[dimension], outcome |-> sc.outcome,
                      error |-> sc.error, computeCalls |-> sc.calls]
    /\ UNCHANGED <<kind, cfg, lastLayoutManager, managers, maxSpanSource, leaked,
                   stack, pair>>

\* gridProvider.setMaxColumnSpan()
SetMaxColumnSpanCall ==
    /\ Idle
    /\ kind = "GridLayoutProvider"
    /\ ret' = [op |-> "setMaxColumnSpan"] @@ GridSetMaxColumnSpan(cfg, maxSpanSource)
    /\ UNCHANGED <<kind, cfg, tempDim, lastLayoutManager, managers, maxSpanSource,
                   leaked, stack, pair>>

\* The owner of the max-span source changes it between two calls.
ChangeMaxSpan(span) ==
    /\ Idle
    /\ kind = "GridLayoutProvider"
    /\ span # maxSpanSource
    /\ maxSpanSource' = span
    /\ ret' = NoRet
    /\ UNCHANGED <<kind, cfg, tempDim, lastLayoutManager, managers, leaked, stack, pair>>

Next ==
    \/ \E index \in Indices : GetLayoutTypeForIndex(index)
    \/ \E h \in IsHorizontalArgs, cl \in CachedLayoutsArgs : NewLayoutManager(h, cl)
    \/ \E d \in DimArgs(tempDim, leaked), t \in Types, i \in Indices :
          CheckDimensionDiscrepancyCall(d.ref, d.dim, t, i)
    \/ \E d \in DimArgs(tempDim, leaked), t \in Types, i \in Indices :
          SetComputedLayoutCall(d.ref, d.dim, t, i)
    \/ SetMaxColumnSpanCall
    \/ \E span \in MaxSpans : ChangeMaxSpan(span)

Spec == Init /\ [][Next]_vars

\* ------------------------------------------------- re-entrant use (frames)
\* checkDimensionDiscrepancy run line by line, so that the tracked manager's
\* setMaxBounds, which holds the provider it was constructed with, can call
\* checkDimensionDiscrepancy again before it returns.  A frame is one call in
\* progress: at "recompute" line 63 is about to run, at "setMaxBounds" the
\* manager's setMaxBounds (line 66) is running, at "compare" line 68 is about
\* to run.  own, overlapped and writer record the frame's history: what the
\* scratch buffer held after the frame's own recomputation, whether another
\* call completed since, and the (type, index) of the latest such call's
\* recomputation.
Frame(dimension, arg, type, index) ==
    [dimension |-> dimension, arg |-> arg, type |-> type, index |-> index,
     pc |-> "recompute", own |-> InitTempDim, overlapped |-> FALSE,
     writer |-> [type |-> type, index |-> index]]

Top == stack[Len(stack)]
SetTop(f) == [stack EXCEPT ![Len(stack)] = f]
HeapOf(f) == [r \in DimRefs |-> IF r = "arg" THEN f.arg ELSE tempDim]

\* A call begins: from the provider's user when no call is in progress, from
\* inside the manager's setMaxBounds otherwise.
EnterCheck(dimension, arg, type, index) ==
    /\ kind = "LayoutProvider"
    /\ \/ stack = <<>>
       \/ /\ stack # <<>>
          /\ Top.pc = "setMaxBounds"
          /\ Len(stack) <= MaxDepth
    /\ stack' = Append(stack, Frame(dimension, arg, type, index))
    /\ ret' = NoRet
    /\ UNCHANGED <<kind, cfg, tempDim, lastLayoutManager, managers, maxSpanSource,
                   leaked, pair>>

\* Line 63, then the test of line 65.  An error of the compute callback ends
\* this call and, through setMaxBounds, every call around it.
RecomputeStep ==
    /\ stack # <<>>
    /\ Top.pc = "recompute"
    /\ LET f == Top
           heap0 == HeapOf(f)
           target == ScratchTarget(f.dimension)
           sc == Recompute(kind, cfg, f.type, heap0[target], f.index)
           heap1 == [heap0 EXCEPT ![target] = sc.dim]
       IN  IF sc.outcome = "threw"
           THEN /\ stack' = <<>>
                /\ ret' = [op |-> "checkDimensionDiscrepancy"] @@ OnComputeError(sc.error)
                          @@ [overlapped |-> Len(stack) > 1]
                /\ UNCHANGED tempDim
           ELSE /\ tempDim' = heap1["tempDim"]
                /\ stack' = SetTop([f EXCEPT
                       !.arg = heap1["arg"],
                       !.own = heap1["tempDim"],
                       !.pc = IF PropagatesBounds(lastLayoutManager, heap1[f.dimension],
                                                  heap1["tempDim"])
                              THEN "setMaxBounds" ELSE "compare"])
                /\ ret' = NoRet
    /\ leaked' = TRUE
    /\ UNCHANGED <<kind, cfg, lastLayoutManager, managers, maxSpanSource, pair>>

\* The manager's setMaxBounds returns to line 67.
SetMaxBoundsReturns ==
    /\ stack # <<>>
    /\ Top.pc = "setMaxBounds"
    /\ tempDim' = SetMaxBounds(tempDim)
    /\ stack' = SetTop([Top EXCEPT !.pc = "compare"])
    /\ ret' = NoRet
    /\ UNCHANGED <<kind, cfg, lastLayoutManager, managers, maxSpanSource, leaked, pair>>

\* Line 68: the comparison and the return to the caller, which is the user
\* or the setMaxBounds of the call around this one.
CompareStep ==
    /\ stack # <<>>
    /\ Top.pc = "compare"
    /\ LET f == Top
           heap == HeapOf(f)
           d2 == Dimension2(tempDim, f.own)
           rest == SubSeq(stack, 1, Len(stack) - 1)
       IN  /\ ret' = [op |-> "checkDimensionDiscrepancy", dimension |-> f.dimension,
                      type |-> f.type, index |-> f.index, before |-> heap[f.dimension],
                      outcome |-> "returned", error |-> "",
                      value |-> Discrepancy(heap[f.dimension], d2),
                      compared |-> d2, own |-> f.own, overlapped |-> f.overlapped,
                      writer |-> f.writer]
           /\ stack' = IF rest = <<>> THEN rest
                       ELSE [rest EXCEPT ![Len(rest)] =
                               [@ EXCEPT !.overlapped = TRUE, !.writer = f.writer]]
    /\ UNCHANGED <<kind, cfg, tempDim, lastLayoutManager, managers, maxSpanSource,
                   leaked, pair>>

InitReentrant == Init /\ kind = "LayoutProvider"

NextReentrant ==
    \/ \E d \in OwnDims, t \in Types, i \in Indices : EnterCheck("arg", d, t, i)
    \/ RecomputeStep
    \/ SetMaxBoundsReturns
    \/ CompareStep
    \/ NewLayoutManager("false", "undefined")

SpecReentrant == InitReentrant /\ [][NextReentrant]_vars

\* ------------------------------------------------------------ two providers
\* Two LayoutProviders constructed with the same callbacks; each has its own
\* scratch buffer and its own tracked manager, and each goes through its own
\* sequence of calls.  The dimension passed is always an object of the caller.
CheckOn(p, dim, type, index) ==
    CheckDimensionDiscrepancy("LayoutProvider", cfg, pair[p].tempDim,
                              pair[p].lastLayoutManager, "arg", dim, type, index)
After(p, r) == [pair[p] EXCEPT !.tempDim = r.heap["tempDim"]]
Verdict(r) == [outcome |-> r.outcome, value |-> r.value]

\* provider p: checkDimensionDiscrepancy(dim, type, index)
PairCheck(p, dim, type, index) ==
    /\ pair' = [pair EXCEPT ![p] = After(p, CheckOn(p, dim, type, index))]
    /\ ret' = NoRet
    /\ UNCHANGED <<kind, cfg, tempDim, lastLayoutManager, managers, maxSpanSource,
                   leaked, stack>>

\* provider p: newLayoutManager(renderWindowSize, isHorizontal, cachedLayouts)
PairNewLayoutManager(p, isHorizontal, cachedLayouts) ==
    /\ Len(pair[p].managers) < MaxManagers
    /\ LET r == LayoutProviderNewLayoutManager(pair[p].lastLayoutManager, pair[p].managers,
                                                RenderWindow, isHorizontal, cachedLayouts)
       IN  pair' = [pair EXCEPT ![p] =
                      [@ EXCEPT !.managers = r.managers, !.lastLayoutManager = r.last]]
    /\ ret' = NoRet
    /\ UNCHANGED <<kind, cfg, tempDim, lastLayoutManager, managers, maxSpanSource,
                   leaked, stack>>

\* The same call on both providers, and once more on the first.
PairCheckBoth(dim, type, index) ==
    /\ LET r1 == CheckOn(1, dim, type, index)
           r2 == CheckOn(2, dim, type, index)
           again == CheckDimensionDiscrepancy("LayoutProvider", cfg, r1.heap["tempDim"],
                        pair[1].lastLayoutManager, "arg", r1.heap["arg"], type, index)
       IN  /\ pair' = [p \in {1, 2} |-> IF p = 1 THEN After(1, again) ELSE After(2, r2)]
           /\ ret' = [op |-> "both", dim |-> dim, type |-> type, index |-> index,
                      first |-> Verdict(r1), second |-> Verdict(r2),
                      again |-> Verdict(again),
                      differed |-> pair[1].tempDim # pair[2].tempDim]
    /\ UNCHANGED <<kind, cfg, tempDim, lastLayoutManager, managers, maxSpanSource,
                   leaked, stack>>

InitPairs == Init /\ kind = "LayoutProvider"

NextPair ==
    \/ \E p \in {1, 2}, d \in ArgDims, t \in Types, i \in Indices : PairCheck(p, d, t, i)
    \/ \E p \in {1, 2} : PairNewLayoutManager(p, "false", "undefined")
    \/ \E d \in ArgDims, t \in Types, i \in Indices : PairCheckBoth(d, t, i)

SpecPair == InitPairs /\ [][NextPair]_vars

\* ------------------------------------------------------------------ claims
IsCheck == ret.op = "checkDimensionDiscrepancy"
IsNewLayoutManager == ret.op = "newLayoutManager"
\* What the compute callback writes into a Dimension that holds nothing yet.
Fresh(c, type, index) == ComputeWrites(c, type, InitTempDim, index)
WritesBoth(c, type, index) == ComputeWritesWidth(c, type, index)

\* C1: a checkDimensionDiscrepancy call that is not re-entered, on a
\* LayoutProvider whose compute callback writes height and width for
\* (type, index), returns true exactly when what the callback writes differs
\* in height or in width from the supplied dimension (as it was passed, for a
\* caller's own object; as it is when compared, in every case).  With the
\* example callbacks, ({50,320}, "header", 3) gives true and
\* ({100,320}, "header", 3) gives false.
C1_DiscrepancyIffDiffers ==
    (IsCheck /\ kind = "LayoutProvider" /\ ret.outcome = "returned"
        /\ WritesBoth(cfg, ret.type, ret.index)) =>
        /\ ret.value = (Fresh(cfg, ret.type, ret.index) # ret.after)
        /\ ret.dimension = "arg" =>
              ret.value = (Fresh(cfg, ret.type, ret.index) # ret.before)
        /\ (cfg = "example" /\ ret.type = "header" /\ ret.index = 3
              /\ ret.dimension = "arg") =>
              /\ ret.before = Dim(50, 320) => ret.value = TRUE
              /\ ret.before = Dim(100, 320) => ret.value = FALSE

C1_Witness ==
    /\ IsCheck /\ kind = "LayoutProvider" /\ cfg = "example"
    /\ ret.dimension = "arg" /\ ret.type = "header" /\ ret.index = 3
    /\ ret.before = Dim(50, 320) /\ ret.outcome = "returned" /\ ret.value = TRUE

\* C2: on a GridLayoutProvider every setComputedLayout call and every
\* checkDimensionDiscrepancy call ends by returning (a boolean, for the check).
C2_GridCallsReturn ==
    (kind = "GridLayoutProvider"
        /\ ret.op \in {"checkDimensionDiscrepancy", "setComputedLayout"}) =>
        ret.outcome = "returned"

\* C3: GridLayoutProvider.newLayoutManager with a true isHorizontal ends with
\* the NotSupportedException error, constructs and returns no manager, does
\* not call the max-column-span callback and leaves the provider as it was,
\* whatever cachedLayouts is; with isHorizontal false or omitted it does not
\* end with that error.
C3_HorizontalGridUnsupported ==
    (IsNewLayoutManager /\ kind = "GridLayoutProvider") =>
        /\ Truthy(ret.isHorizontal) =>
              /\ ret.outcome = "threw" /\ ret.error = "NotSupportedException"
              /\ ret.manager = 0 /\ ret.maxSpanCalls = 0
              /\ ret.post = ret.pre
              /\ Here = ret.pre
        /\ ~Truthy(ret.isHorizontal) => ret.error # "NotSupportedException"

C3_Witness ==
    /\ IsNewLayoutManager /\ kind = "GridLayoutProvider"
    /\ ret.isHorizontal = "true" /\ ret.cachedLayouts = "cached"
    /\ ret.outcome = "threw" /\ Len(managers) = 1

\* What C4 says of the state a call leaves: a GridLayoutProvider.newLayoutManager
\* call that returns has called the max-column-span callback exactly once and
\* has constructed the manager with the value the callback returned then;
\* setMaxColumnSpan() calls the callback once and returns its current value.
C4_SpanAtConstruction ==
    /\ (IsNewLayoutManager /\ kind = "GridLayoutProvider" /\ ret.outcome = "returned") =>
          /\ ret.maxSpanCalls = 1
          /\ ret.manager = Len(managers)
          /\ managers[ret.manager].cls = "GridLayoutManager"
          /\ managers[ret.manager].maxSpan = maxSpanSource
    /\ (ret.op = "setMaxColumnSpan" /\ ret.outcome = "returned") =>
          ret.maxSpanCalls = 1 /\ ret.value = maxSpanSource

\* C4: every GridLayoutProvider.newLayoutManager call that returns calls the
\* max-column-span callback exactly once and constructs the manager with the
\* value returned at that moment; no later step, a change of the max-span
\* source included, changes the span capacity of a manager that exists, and a
\* manager created after the change gets the new value; setMaxColumnSpan()
\* queries the callback on every call.
C4_SpanFixedAtConstruction ==
    [][/\ C4_SpanAtConstruction'
       /\ \A m \in 1..Len(managers) :
             m <= Len(managers') /\ managers'[m] = managers[m]]_vars

C4_Witness ==
    /\ kind = "GridLayoutProvider" /\ IsNewLayoutManager /\ Len(managers) = 2
    /\ managers[1].maxSpan = 4 /\ managers[2].maxSpan = 2 /\ maxSpanSource = 2

\* C5 as stated: after a checkDimensionDiscrepancy call the dimension object
\* that was passed holds what it held before the call, whichever object a
\* caller can hold was passed.
C5_NeverMutatesArgument == IsCheck => ret.after = ret.before

\* C5 as amended: a dimension object other than the provider's scratch buffer
\* holds after the call what it held before; when the scratch buffer itself
\* is passed, a call that returns leaves in it what the recomputation wrote
\* and returns false.
C5_NeverMutatesOwnArgument ==
    IsCheck =>
        /\ ret.dimension = "arg" => ret.after = ret.before
        /\ (ret.dimension = "tempDim" /\ ret.outcome = "returned") =>
              ret.after = tempDim /\ ret.value = FALSE

C5_Witness ==
    /\ IsCheck /\ kind = "LayoutProvider" /\ ret.dimension = "arg"
    /\ ret.outcome = "returned" /\ ret.value = TRUE
    /\ tempDim # ret.before /\ ret.after = ret.before

\* C6: on a LayoutProvider a checkDimensionDiscrepancy call that returns has
\* called setMaxBounds exactly once, with the scratch buffer as the
\* recomputation left it, on the manager the most recent newLayoutManager
\* call created, whether it returns true or false; when no manager was ever
\* created it has called no setMaxBounds.
C6_BoundsOnEveryCheck ==
    (IsCheck /\ kind = "LayoutProvider" /\ ret.outcome = "returned") =>
        IF managers = <<>>
        THEN ret.boundsCalls = 0 /\ ret.value \in BOOLEAN
        ELSE /\ ret.boundsCalls = 1
             /\ ret.boundsTarget = Len(managers)
             /\ ret.boundsArg = ret.recomputed
             /\ WritesBoth(cfg, ret.type, ret.index) =>
                   ret.boundsArg = Fresh(cfg, ret.type, ret.index)

C6_Witness ==
    /\ IsCheck /\ kind = "LayoutProvider" /\ ret.outcome = "returned"
    /\ ret.value = FALSE /\ Len(managers) = 2
    /\ ret.boundsCalls = 1 /\ ret.boundsTarget = 2

\* C7: the tracked manager of a GridLayoutProvider is the manager it created
\* most recently (undefined only when it created none).
C7_GridTracksLastCreated ==
    kind = "GridLayoutProvider" => lastLayoutManager = Len(managers)

\* C8 as stated: for any compute callback whose writes depend only on
\* (type, index), one that writes a single field included, two providers with
\* the same callbacks and different histories answer the same call alike, and
\* a call that returned false returns false when repeated.
C8_HistoryIndependent ==
    ret.op = "both" =>
        /\ ret.first = ret.second
        /\ ret.first = [outcome |-> "returned", value |-> FALSE] => ret.again = ret.first

\* C8 as amended: the same, for the (type, index) for which the compute
\* callback writes both height and width; the repetition of a call that
\* returned false returns false for every callback.
C8_HistoryIndependentWhenBothWritten ==
    ret.op = "both" =>
        /\ WritesBoth(cfg, ret.type, ret.index) => ret.first = ret.second
        /\ ret.first = [outcome |-> "returned", value |-> FALSE] => ret.again = ret.first

C8_Witness ==
    /\ ret.op = "both" /\ ret.differed /\ WritesBoth(cfg, ret.type, ret.index)
    /\ pair[1].lastLayoutManager # pair[2].lastLayoutManager
    /\ ret.first = [outcome |-> "returned", value |-> FALSE]
    /\ ret.second = ret.first /\ ret.again = ret.first

\* C9: a checkDimensionDiscrepancy call compares the supplied dimension with
\* what the scratch buffer holds when it compares.  When no other call
\* completed between its recomputation and its comparison, that is its own
\* (type, index) recomputation; when one did, it is what the latest such
\* call computed for its (type, index), so the result can differ from the
\* result of the same call not overlapped.
C9_OverlappingChecksShareScratch ==
    (IsCheck /\ ret.outcome = "returned") =>
        /\ ret.value = (ret.before # ret.compared)
        /\ ~ret.overlapped =>
              /\ ret.compared = ret.own
              /\ ret.writer = [type |-> ret.type, index |-> ret.index]
              /\ WritesBoth(cfg, ret.type, ret.index) =>
                    ret.compared = Fresh(cfg, ret.type, ret.index)
        /\ (ret.overlapped /\ WritesBoth(cfg, ret.writer.type, ret.writer.index)) =>
              ret.compared = Fresh(cfg, ret.writer.type, ret.writer.index)

C9_Witness ==
    /\ IsCheck /\ ret.outcome = "returned" /\ ret.overlapped /\ cfg = "example"
    /\ ret.writer.type # ret.type
    /\ ret.compared # ret.own
    /\ ret.value # (ret.before # ret.own)

\* C10: when the compute callback throws in a checkDimensionDiscrepancy call
\* of a LayoutProvider, the call ends with that error and no boolean, the
\* callback was called once, setMaxBounds was not called and the tracked
\* manager is the one tracked before; when the classification callback
\* throws, getLayoutTypeForIndex ends with that error; when the max-span
\* callback throws in GridLayoutProvider.newLayoutManager, the call ends with
\* that error and no manager is constructed.
C10_CallbackErrorsPropagate ==
    /\ (IsCheck /\ kind = "LayoutProvider"
          /\ ComputeThrows(cfg, ret.type, ret.index)) =>
          /\ ret.outcome = "threw" /\ ret.error = "ComputeError"
          /\ ret.computeCalls = 1 /\ ret.boundsCalls = 0
          /\ ret.lastAfter = ret.lastBefore /\ lastLayoutManager = ret.lastBefore
    /\ (ret.op = "getLayoutTypeForIndex" /\ ClassifyThrows(cfg, ret.index)) =>
          /\ ret.outcome = "threw" /\ ret.error = "ClassifyError"
          /\ ret.classifyCalls = 1
    /\ (IsNewLayoutManager /\ kind = "GridLayoutProvider"
          /\ ~Truthy(ret.isHorizontal) /\ MaxSpanThrows(cfg)) =>
          /\ ret.outcome = "threw" /\ ret.error = "MaxSpanError"
          /\ ret.maxSpanCalls = 1 /\ ret.manager = 0
          /\ managers = ret.pre.managers

C10_Witness ==
    /\ IsCheck /\ kind = "LayoutProvider" /\ cfg = "throwing"
    /\ ret.outcome = "threw" /\ ret.error = "ComputeError"
    /\ lastLayoutManager = 2

====
